---- MODULE Spec2Model ----
(***************************************************************************)
(* Model of mvpa2/misc/fx.py: the parametric curve functions, the          *)
(* least-squares fit adapter, the histogram-fit pipeline and the random    *)
(* rotation generator.  Every function of the module is stateless; the     *)
(* state of the model is the last call made (its arguments, with the       *)
(* values the external libraries produced for it) and what it returned or  *)
(* raised.                                                                 *)
(***************************************************************************)
EXTENDS Integers, Sequences, FiniteSets

VARIABLES call, ret

vars == <<call, ret>>

(* Bounds of the input domains. *)
MaxVal == 2
MaxLen == 2
MaxRows == 2
MaxBins == 3
MaxDim == 3

(***************************************************************************)
(* Numbers.  A Python number is [kind, v]; float() turns any number into   *)
(* a float of the same value.  Real results are exact fractions            *)
(* [nan, num, den] (den > 0, lowest terms) or NaN.                         *)
(***************************************************************************)
Abs(n) == IF n < 0 THEN -n ELSE n

Min(a, b) == IF a <= b THEN a ELSE b

Max(a, b) == IF a >= b THEN a ELSE b

RECURSIVE Gcd(_, _)
Gcd(a, b) == IF b = 0 THEN Abs(a) ELSE Gcd(b, a % b)

PyFloat(a) == [kind |-> "float", v |-> a.v]

NaN == [nan |-> TRUE, num |-> 0, den |-> 1]

Frac(n, d) ==
    LET g == Gcd(Abs(n), Abs(d))
        s == IF d < 0 THEN -1 ELSE 1
    IN [nan |-> FALSE, num |-> (s * n) \div g, den |-> (s * d) \div g]

FracSub(p, q) ==
    IF p.nan \/ q.nan THEN NaN
    ELSE Frac(p.num * q.den - q.num * p.den, p.den * q.den)

Returned(val) == [exc |-> "none", val |-> val]

Raised(e) == [exc |-> e, val |-> NaN]

(***************************************************************************)
(* single_gamma_hrf.  The expression of line 38-39 parses as               *)
(*   K * (t / A)  +  (0j ** E) * (np.e ** Z)                               *)
(* with E = A^2 / W^2 * 8 ln 2 and Z = (t - A) / -((W + 0j) / A / 8 / ln2).*)
(* A, W, K are Python floats after float(), so a zero A or W divides by    *)
(* zero in Python arithmetic; t is a Python scalar or an array (t.arr).    *)
(* Z is real: Z = (A - t) * A * 8 ln 2 / W, and np.e ** Z overflows for    *)
(* Z > 709.78: an OverflowError for a scalar, inf for an array.            *)
(***************************************************************************)
ExpOverflows(t, A, W) ==
    LET n == (A.v - t.v) * A.v * 5545
    IN IF W.v > 0 THEN n > 709783 * W.v ELSE n < 709783 * W.v

single_gamma_hrf_wrong_width(t, A0, W0, K0) ==
    LET A == PyFloat(A0)
        W == PyFloat(W0)
        K == PyFloat(K0)
    IN  IF A.v = 0 THEN Raised("ZeroDivisionError")
        ELSE IF W.v = 0 THEN Returned(NaN)
        ELSE IF ExpOverflows(t, A, W)
             THEN IF t.arr THEN Returned(NaN) ELSE Raised("OverflowError")
        ELSE Returned(Frac(K.v * t.v, A.v))

single_gamma_hrf(t, A0, W0, K0) ==
    LET A == PyFloat(A0)
        W == PyFloat(W0)
        K == PyFloat(K0)
    IN  \* t / A: a scalar t raises at once; an array t gives inf/nan and
        \* the complex division (W + 0j) / A raises afterwards
        IF A.v = 0 THEN Raised("ZeroDivisionError")
        \* (A ** 2) / (W ** 2)
        ELSE IF W.v = 0 THEN Raised("ZeroDivisionError")
        \* np.e ** Z
        ELSE IF ExpOverflows(t, A, W)
             THEN IF t.arr
                  \* 0j * inf = nan
                  THEN Returned(NaN)
                  ELSE Raised("OverflowError")
        \* 0j ** E = 0j for E > 0, so res.real = K * (t / A)
        ELSE Returned(Frac(K.v * t.v, A.v))

double_gamma_hrf_swapped(t, A1, W1, K1, A2, W2, K2) ==
    LET r1 == single_gamma_hrf(t, PyFloat(A1), PyFloat(W1), PyFloat(K1))
        r2 == single_gamma_hrf(t, PyFloat(W2), PyFloat(A2), PyFloat(K2))
    IN  IF r1.exc # "none" THEN r1
        ELSE IF r2.exc # "none" THEN r2
        ELSE Returned(FracSub(r1.val, r2.val))

double_gamma_hrf(t, A1, W1, K1, A2, W2, K2) ==
    LET r1 == single_gamma_hrf(t, PyFloat(A1), PyFloat(W1), PyFloat(K1))
        r2 == single_gamma_hrf(t, PyFloat(A2), PyFloat(W2), PyFloat(K2))
    IN  IF r1.exc # "none" THEN r1
        ELSE IF r2.exc # "none" THEN r2
        ELSE Returned(FracSub(r1.val, r2.val))

(* Input domains of the HRF models. *)
TimeVals == {[arr |-> a, v |-> n] : a \in BOOLEAN, n \in (0..MaxVal) \cup {-200}}

Kinds == {"int", "float"}

PeakVals == 0..MaxVal

WidthVals == -1..MaxVal

ScaleVals == 1..MaxVal

Num(k, n) == [kind |-> k, v |-> n]

(* No call is in progress: the module keeps no state between calls. *)
Idle == call.fn = "none"

CallSingleGamma ==
    /\ Idle
    /\ \E t \in TimeVals, k \in Kinds, a \in PeakVals, w \in WidthVals, s \in ScaleVals :
        /\ call' = [fn |-> "single_gamma_hrf", t |-> t,
                    A |-> Num(k, a), W |-> Num(k, w), K |-> Num(k, s)]
        /\ ret' = single_gamma_hrf(t, Num(k, a), Num(k, w), Num(k, s))

CallDoubleGamma ==
    /\ Idle
    /\ \E t \in TimeVals, k \in Kinds,
       a1 \in PeakVals, w1 \in WidthVals, s1 \in ScaleVals,
       a2 \in PeakVals, w2 \in WidthVals, s2 \in ScaleVals :
        /\ call' = [fn |-> "double_gamma_hrf", t |-> t,
                    A1 |-> Num(k, a1), W1 |-> Num(k, w1), K1 |-> Num(k, s1),
                    A2 |-> Num(k, a2), W2 |-> Num(k, w2), K2 |-> Num(k, s2)]
        /\ ret' = double_gamma_hrf(t, Num(k, a1), Num(k, w1), Num(k, s1),
                                      Num(k, a2), Num(k, w2), Num(k, s2))

(***************************************************************************)
(* Gaussian mixtures.  scipy.stats.norm.pdf(x, mean, std) is evaluated in  *)
(* fixed point: the density in millionths, phi(z) / std with               *)
(* phi(z) = exp(-z^2 / 2) / sqrt(2 pi), the exponential by its power       *)
(* series in thousandths.  A result is [nan, v]: the np.nan sentinel or a  *)
(* value in millionths.                                                    *)
(***************************************************************************)
RECURSIVE ExpSeries(_, _, _, _, _)
ExpSeries(term, k, qn, qd, acc) ==
    IF term = 0 THEN acc
    ELSE ExpSeries((term * qn) \div (qd * k), k + 1, qn, qd, acc + term)

(* 1000 * exp(qn / qd) for qn >= 0, qd > 0 *)
ExpMilli(qn, qd) == ExpSeries(1000, 1, qn, qd, 0)

(* 10^6 * pdf of N(mean, std) at x, for std > 0 *)
norm_pdf(x, mean, std) ==
    LET d == x - mean
    IN  (398942 * 1000) \div (ExpMilli(d * d, 2 * std * std) * std)

NanSentinel == [nan |-> TRUE, v |-> 0]

Value(v) == [nan |-> FALSE, v |-> v]

dual_gaussian_strict(x, amp1, mean1, std1, amp2, mean2, std2) ==
    IF std1 < 0 \/ std2 < 0 THEN NanSentinel
    ELSE IF std1 = 0 \/ std2 = 0 THEN Value(0)
    ELSE Value(amp1 * norm_pdf(x, mean1, std1) + amp2 * norm_pdf(x, mean2, std2))

dual_gaussian(x, amp1, mean1, std1, amp2, mean2, std2) ==
    IF std1 <= 0 \/ std2 <= 0 THEN NanSentinel
    ELSE Value(amp1 * norm_pdf(x, mean1, std1) + amp2 * norm_pdf(x, mean2, std2))

dual_positive_gaussian_nonzero(x, amp1, mean1, std1, amp2, mean2, std2) ==
    IF amp1 <= 0 \/ amp2 <= 0 THEN NanSentinel
    ELSE dual_gaussian(x, amp1, mean1, std1, amp2, mean2, std2)

dual_positive_gaussian(x, amp1, mean1, std1, amp2, mean2, std2) ==
    IF amp1 < 0 \/ amp2 < 0 THEN NanSentinel
    ELSE dual_gaussian(x, amp1, mean1, std1, amp2, mean2, std2)

(* Input domains of the Gaussian mixtures. *)
ArgVals == 0..MaxVal

AmpVals == -1..MaxVal

MeanVals == 0..MaxVal

StdVals == -1..MaxVal

GaussArgs(fn, x, a1, m1, s1, a2, m2, s2) ==
    [fn |-> fn, x |-> x, amp1 |-> a1, mean1 |-> m1, std1 |-> s1,
     amp2 |-> a2, mean2 |-> m2, std2 |-> s2]

CallDualGaussian ==
    /\ Idle
    /\ \E x \in ArgVals, a1 \in AmpVals, m1 \in MeanVals, s1 \in StdVals,
          a2 \in AmpVals, m2 \in MeanVals, s2 \in StdVals :
        /\ call' = GaussArgs("dual_gaussian", x, a1, m1, s1, a2, m2, s2)
        /\ ret' = Returned(dual_gaussian(x, a1, m1, s1, a2, m2, s2))

CallDualPositiveGaussian ==
    /\ Idle
    /\ \E x \in ArgVals, a1 \in AmpVals, m1 \in MeanVals, s1 \in StdVals,
          a2 \in AmpVals, m2 \in MeanVals, s2 \in StdVals :
        /\ call' = GaussArgs("dual_positive_gaussian", x, a1, m1, s1, a2, m2, s2)
        /\ ret' = Returned(dual_positive_gaussian(x, a1, m1, s1, a2, m2, s2))

(***************************************************************************)
(* Arrays.  A numpy array is [none, ndim, v]: v is the sequence of its     *)
(* elements (ndim = 1) or of its rows (ndim = 2); None is the omitted      *)
(* argument.                                                               *)
(***************************************************************************)
None == [none |-> TRUE, ndim |-> 0, v |-> <<>>]

Array1(v) == [none |-> FALSE, ndim |-> 1, v |-> v]

Array2(rows) == [none |-> FALSE, ndim |-> 2, v |-> rows]

(* y.shape *)
Shape(a) == IF a.ndim = 1 THEN <<Len(a.v)>> ELSE <<Len(a.v), Len(a.v[1])>>

(* np.arange(n) *)
arange(n) == [i \in 1..n |-> i - 1]

(* a.ravel() of a list of rows: the rows one after the other *)
RECURSIVE ravel(_)
ravel(rows) == IF rows = <<>> THEN <<>> ELSE Head(rows) \o ravel(Tail(rows))

(* [x] * nsamp *)
Repeat(x, nsamp) == [i \in 1..nsamp |-> x]

(* a functor fx(x, *p), applied elementwise to the vector x *)
Functors == {"line"}

ApplyFx(fx, x, p) == [i \in 1..Len(x) |-> p[1] + p[2] * x[i]]

(* y - f, with f a vector broadcast over the rows of a 2D y *)
Subtract(y, f) ==
    IF y.ndim = 1
    THEN Array1([i \in 1..Len(y.v) |-> y.v[i] - f[i]])
    ELSE Array2([r \in 1..Len(y.v) |-> [i \in 1..Len(y.v[r]) |-> y.v[r][i] - f[i]]])

(***************************************************************************)
(* least_sq_fit.  The record of a call: the arguments y and x it was       *)
(* given, the x and y its residual function efx closes over, the residual  *)
(* at the start values and the status scipy's leastsq reports (ier, the    *)
(* solver's choice).                                                       *)
(***************************************************************************)
SampleDims(y) ==
    IF Len(Shape(y)) > 1 THEN Shape(y) ELSE <<1, Len(y.v)>>

DefaultX_ones(x, ylen) == IF x.none THEN [i \in 1..ylen |-> i] ELSE x.v

DefaultX(x, ylen) == IF x.none THEN arange(ylen) ELSE x.v

Flatten(x, y, nsamp) ==
    IF nsamp > 1
    THEN [x |-> ravel(Repeat(x, nsamp)), y |-> Array1(ravel(y.v))]
    ELSE [x |-> x, y |-> y]

least_sq_fit(fx, params, y, x, ier) ==
    LET nsamp == SampleDims(y)[1]
        ylen == SampleDims(y)[2]
        x1 == DefaultX(x, ylen)
        flat == Flatten(x1, y, nsamp)
        efx(p) == Subtract(flat.y, ApplyFx(fx, flat.x, p))
    IN  [y_arg |-> y, x_arg |-> x, x0 |-> x1, efx_x |-> flat.x, efx_y |-> flat.y,
         err0 |-> efx(params), ier |-> ier]

(* Input domains of the fit adapter. *)
RECURSIVE Vectors(_, _)
Vectors(S, n) ==
    IF n = 0 THEN {<<>>}
    ELSE {<<e>> \o v : e \in S, v \in Vectors(S, n - 1)}

Matrices(S, n, m) == Vectors(Vectors(S, m), n)

DataVals == {0, MaxVal}

StartParams == {<<0, 1>>, <<1, 1>>}

SolverStatus == {1, 5}

FitData1 == UNION {{Array1(v) : v \in Vectors(DataVals, m)} : m \in 1..MaxLen}

FitData2 ==
    UNION {{Array2(r) : r \in Matrices(DataVals, n, m)} :
           <<n, m>> \in (1..MaxRows) \X (1..MaxLen)}

FitX(m) == {None} \cup {Array1(v) : v \in Vectors(0..1, m)}

FitCall(fx, p, y, x, ier) ==
    /\ call' = [fn |-> "least_sq_fit", fx |-> fx, params |-> p, y |-> y, x |-> x]
    /\ ret' = Returned(least_sq_fit(fx, p, y, x, ier))

CallLeastSqFit ==
    /\ Idle
    /\ \E fx \in Functors, p \in StartParams, ier \in SolverStatus :
        \/ \E y \in FitData1 : \E x \in FitX(Len(y.v)) : FitCall(fx, p, y, x, ier)
        \/ \E y \in FitData2 : \E x \in FitX(Len(y.v[1])) : FitCall(fx, p, y, x, ier)

(***************************************************************************)
(* fit2histogram.  Data values are integers; bin edges and widths are      *)
(* fixed-point numbers in units of 1e-7, so that rounding to 6 decimals    *)
(* (np.round(..., decimals=6)) is rounding to a multiple of 10 units.      *)
(***************************************************************************)
Micro == 1000000

Unit == 10 * Micro

(* n / d rounded to the nearest integer, halves to even (d > 0) *)
RoundDiv(n, d) ==
    LET q == n \div d
        r == n % d
    IN  IF 2 * r < d THEN q
        ELSE IF 2 * r > d THEN q + 1
        ELSE IF q % 2 = 0 THEN q ELSE q + 1

(* np.round(a, decimals=6) of a value in units *)
Round6(a) == 10 * RoundDiv(a, 10)

RECURSIVE SeqMin(_)
SeqMin(v) == IF Len(v) = 1 THEN v[1] ELSE Min(v[1], SeqMin(Tail(v)))

RECURSIVE SeqMax(_)
SeqMax(v) == IF Len(v) = 1 THEN v[1] ELSE Max(v[1], SeqMax(Tail(v)))

(* x_range as given, or (X.min(), X.max()); in data units *)
XRange_first_row(X, x_range) ==
    IF x_range.none THEN <<SeqMin(X[1]), SeqMax(X[1])>> ELSE x_range.v

XRange(X, x_range) ==
    IF x_range.none THEN <<SeqMin(ravel(X)), SeqMax(ravel(X))>> ELSE x_range.v

(* np.histogram's outer edges, in units: an empty range is widened by
   0.5 on both sides *)
OuterEdges(range) ==
    IF range[1] = range[2]
    THEN <<range[1] * Unit - Unit \div 2, range[2] * Unit + Unit \div 2>>
    ELSE <<range[1] * Unit, range[2] * Unit>>

(* np.linspace(first, last, nbins + 1) *)
BinEdges(nbins, range) ==
    LET o == OuterEdges(range)
    IN  [i \in 1..(nbins + 1) |-> o[1] + RoundDiv((i - 1) * (o[2] - o[1]), nbins)]

(* the bin of the value a (1..nbins), 0 when a is outside the range *)
BinOf(a, nbins, range) ==
    LET o == OuterEdges(range)
        u == a * Unit
    IN  IF u < o[1] \/ u > o[2] THEN 0
        ELSE IF u = o[2] THEN nbins
        ELSE 1 + ((u - o[1]) * nbins) \div (o[2] - o[1])

(* np.histogram(obsrv, bins=nbins, range=x_range): <<counts, edges>> *)
histogram(obsrv, nbins, range) ==
    <<[j \in 1..nbins |->
          Cardinality({k \in 1..Len(obsrv) : BinOf(obsrv[k], nbins, range) = j})],
      BinEdges(nbins, range)>>

(* np.unique(np.round(bin_left - hi[1][1:], decimals=6)) *)
EdgeSteps(edges) ==
    {Round6(edges[i] - edges[i + 1]) : i \in 1..(Len(edges) - 1)}

(* np.abs(np.asscalar(...)), for a single step *)
BinWidth(edges) == Abs(CHOOSE w \in EdgeSteps(edges) : TRUE)

StackH_2d(Hs) == Array2(Hs)

(* lines 243-246 *)
StackH(Hs) == IF Len(Hs) = 1 THEN Array1(Hs[1]) ELSE Array2(Hs)

fit2histogram(X, fx, params, nbins, x_range, ier) ==
    LET range == XRange(X, x_range)
        hi(r) == histogram(X[r], nbins, range)
        edges == hi(1)[2]
        bin_left == SubSeq(edges, 1, nbins)
        bin_width == BinWidth(edges)
        bin_centers == [i \in 1..nbins |-> bin_left[i] + bin_width \div 2]
        H == StackH([r \in 1..Len(X) |-> hi(r)[1]])
    IN  \* np.asscalar of an array of several elements
        IF Cardinality(EdgeSteps(edges)) # 1 THEN Raised("ValueError")
        ELSE Returned([H |-> H, bin_left |-> bin_left, bin_width |-> bin_width,
                       fit |-> least_sq_fit(fx, params, H, Array1(bin_centers), ier)])

(* Input domains of the histogram pipeline. *)
HistData ==
    UNION {Matrices(DataVals, n, m) : <<n, m>> \in (1..MaxRows) \X (1..MaxLen)}

HistRanges ==
    {None} \cup {Array1(<<lo, hi>>) : <<lo, hi>> \in {r \in (0..MaxVal) \X (0..MaxVal) : r[1] <= r[2]}}

CallFit2Histogram ==
    /\ Idle
    /\ \E X \in HistData, fx \in Functors, p \in StartParams, nbins \in 1..MaxBins,
          x_range \in HistRanges, ier \in SolverStatus :
        /\ call' = [fn |-> "fit2histogram", X |-> X, fx |-> fx, params |-> p,
                    nbins |-> nbins, x_range |-> x_range]
        /\ ret' = fit2histogram(X, fx, p, nbins, x_range, ier)

(***************************************************************************)
(* get_random_rotation.  A matrix is the sequence of its rows.  The data   *)
(* (given, or drawn by np.random.normal) is known by its shape; the _vh    *)
(* that np.linalg.svd returns for a matrix of c columns is some orthogonal *)
(* c x c matrix, any of the signed permutation matrices here.              *)
(***************************************************************************)
NoneInt == 0

Perms(n) ==
    {p \in [1..n -> 1..n] : \A i, j \in 1..n : p[i] = p[j] => i = j}

Orthogonal(n) ==
    {[i \in 1..n |-> [j \in 1..n |-> IF p[i] = j THEN sg[i] ELSE 0]] :
        p \in Perms(n), sg \in [1..n -> {-1, 1}]}

(* M without row 1 and column c *)
Minor(M, c) ==
    [i \in 1..(Len(M) - 1) |->
        [j \in 1..(Len(M) - 1) |-> IF j < c THEN M[i + 1][j] ELSE M[i + 1][j + 1]]]

(* np.linalg.det, by expansion along the first row *)
RECURSIVE det(_)
det(M) ==
    IF Len(M) = 1 THEN M[1][1]
    ELSE LET term[c \in 0..Len(M)] ==
                 IF c = 0 THEN 0
                 ELSE term[c - 1]
                      + (IF c % 2 = 1 THEN 1 ELSE -1) * M[1][c] * det(Minor(M, c))
         IN  term[Len(M)]

(* data[:, :d] *)
FirstColumns(data, d) == [rows |-> data.rows, cols |-> Min(data.cols, d)]

Slice_transposed(vh, ns, nt) ==
    [i \in 1..Min(nt, Len(vh)) |-> [j \in 1..Min(ns, Len(vh)) |-> vh[i][j]]]

(* _vh[:ns, :nt] *)
Slice(vh, ns, nt) ==
    [i \in 1..Min(ns, Len(vh)) |-> [j \in 1..Min(nt, Len(vh)) |-> vh[i][j]]]

(* R[:, 0] *= -1.0 *)
NegateFirstColumn(R) ==
    [i \in 1..Len(R) |-> [j \in 1..Len(R[i]) |-> IF j = 1 THEN -R[i][j] ELSE R[i][j]]]

FixRotation_positive(R, ns, nt) ==
    IF ns = nt
    THEN IF det(R) > 0 THEN NegateFirstColumn(R) ELSE R
    ELSE R

(* lines 275-279 *)
FixRotation(R, ns, nt) ==
    IF ns = nt
    THEN IF det(R) < 0 THEN NegateFirstColumn(R) ELSE R
    ELSE R

(* nt = NoneInt and data = None stand for the omitted arguments *)
TargetDim(ns, nt) == IF nt = NoneInt THEN ns ELSE nt

RotationData(ns, nt, data) ==
    LET d == Max(ns, TargetDim(ns, nt))
    IN  IF data.none THEN [rows |-> d * 10, cols |-> d]
        ELSE FirstColumns(data, d)

get_random_rotation(ns, nt, data, vh) ==
    FixRotation(Slice(vh, ns, TargetDim(ns, nt)), ns, TargetDim(ns, nt))

(* Input domains of the rotation generator. *)
DataShapes ==
    {[none |-> TRUE, rows |-> 0, cols |-> 0]}
    \cup {[none |-> FALSE, rows |-> r, cols |-> c] : r \in {1, MaxDim}, c \in 1..MaxDim}

CallGetRandomRotation ==
    /\ Idle
    /\ \E ns \in 1..MaxDim, nt \in {NoneInt} \cup (1..MaxDim), data \in DataShapes :
        \E vh \in Orthogonal(RotationData(ns, nt, data).cols) :
            /\ call' = [fn |-> "get_random_rotation", ns |-> ns, nt |-> nt,
                        data |-> data, vh |-> vh]
            /\ ret' = Returned(get_random_rotation(ns, nt, data, vh))

Init ==
    /\ call = [fn |-> "none"]
    /\ ret = Returned(NaN)

(* The caller takes the result (or the exception); nothing is kept. *)
Return ==
    /\ ~Idle
    /\ call' = [fn |-> "none"]
    /\ ret' = Returned(NaN)

Next ==
    \/ CallSingleGamma
    \/ CallDoubleGamma
    \/ CallDualGaussian
    \/ CallDualPositiveGaussian
    \/ CallLeastSqFit
    \/ CallFit2Histogram
    \/ CallGetRandomRotation
    \/ Return

Spec == Init /\ [][Next]_vars

(***************************************************************************)
(* Properties.                                                             *)
(***************************************************************************)
IsCall(fn) == call.fn = fn

(* C1: in least_sq_fit, for every 2D y of shape (n_rows, m), n_rows >= 1,
   the residual function works on a 1D x and a 1D y of length n_rows * m
   with x_flat[k] = x[k mod m] and y_flat[k] = y[k div m][k mod m]; the
   case n_rows = 1 included. *)
C1_TiledAndFlattened ==
    (IsCall("least_sq_fit") /\ call.y.ndim = 2) =>
        LET n == Len(call.y.v)
            m == Len(call.y.v[1])
            r == ret.val
        IN  /\ r.efx_y.ndim = 1
            /\ Len(r.efx_y.v) = n * m
            /\ Len(r.efx_x) = n * m
            /\ \A k \in 0..(n * m - 1) :
                /\ r.efx_x[k + 1] = r.x0[(k % m) + 1]
                /\ r.efx_y.v[k + 1] = call.y.v[(k \div m) + 1][(k % m) + 1]

(* C2: in least_sq_fit an omitted x is 0, 1, ..., m - 1, with m the length
   of a 1D y or the number of columns of a 2D y; a supplied x is used
   unchanged (before tiling). *)
C2_DefaultX ==
    IsCall("least_sq_fit") =>
        LET m == IF call.y.ndim = 1 THEN Len(call.y.v) ELSE Len(call.y.v[1])
            reps == IF call.y.ndim = 1 THEN 1 ELSE Len(call.y.v)
            base == IF call.x.none THEN [i \in 1..m |-> i - 1] ELSE call.x.v
        IN  /\ ret.val.x0 = base
            /\ Len(ret.val.efx_x) = reps * m
            /\ \A k \in 0..(reps * m - 1) : ret.val.efx_x[k + 1] = base[(k % m) + 1]

C2_Witness ==
    /\ IsCall("least_sq_fit")
    /\ call.x.none
    /\ call.y.ndim = 2
    /\ Len(call.y.v) = 2
    /\ ret.val.efx_x = <<0, 1, 0, 1>>

(* C3: dual_gaussian returns the NaN sentinel, without raising, exactly
   when std1 <= 0 or std2 <= 0; with both > 0 it returns
   amp1 * N(x; mean1, std1) + amp2 * N(x; mean2, std2). *)
C3_SentinelIffBadStd ==
    IsCall("dual_gaussian") =>
        /\ ret.exc = "none"
        /\ ret.val.nan <=> (call.std1 <= 0 \/ call.std2 <= 0)
        /\ (call.std1 > 0 /\ call.std2 > 0) =>
              ret.val.v = call.amp1 * norm_pdf(call.x, call.mean1, call.std1)
                          + call.amp2 * norm_pdf(call.x, call.mean2, call.std2)

C3_Witness ==
    /\ IsCall("dual_gaussian")
    /\ call.std1 = 0
    /\ call.std2 > 0
    /\ ret.exc = "none"
    /\ ret.val.nan

(* C4: dual_positive_gaussian returns the NaN sentinel whenever an amplitude
   is negative; with both amplitudes >= 0 (zero included) it returns what
   dual_gaussian returns for the same arguments; so it is the sentinel
   exactly when an amplitude is negative or a standard deviation is <= 0. *)
C4_PositiveDelegates ==
    IsCall("dual_positive_gaussian") =>
        /\ (call.amp1 < 0 \/ call.amp2 < 0) => ret.val.nan
        /\ (call.amp1 >= 0 /\ call.amp2 >= 0) =>
              ret.val = dual_gaussian(call.x, call.amp1, call.mean1, call.std1,
                                      call.amp2, call.mean2, call.std2)
        /\ ret.val.nan <=> (\/ call.amp1 < 0 \/ call.amp2 < 0
                            \/ call.std1 <= 0 \/ call.std2 <= 0)

C4_Witness ==
    /\ IsCall("dual_positive_gaussian")
    /\ call.amp1 = 0
    /\ call.amp2 > 0
    /\ call.std1 > 0
    /\ call.std2 > 0
    /\ ~ret.val.nan
    /\ ret.val.v > 0

NRows(R) == Len(R)

NCols(R) == Len(R[1])

EnoughColumns == call.data.none \/ call.data.cols >= Max(call.ns, TargetDim(call.ns, call.nt))

(* C5 as stated: get_random_rotation returns a matrix of shape (ns, nt) for
   every ns, nt >= 1, with data omitted or given with any number of
   columns. *)
C5_ShapeAlways ==
    IsCall("get_random_rotation") =>
        /\ NRows(ret.val) = call.ns
        /\ NCols(ret.val) = TargetDim(call.ns, call.nt)

(* C5 amended: the shape is (ns, nt) when data is omitted or has at least
   max(ns, nt) columns; with c < max(ns, nt) columns it is
   (min(ns, c), min(nt, c)). *)
C5_ShapeGivenEnoughColumns ==
    IsCall("get_random_rotation") =>
        /\ EnoughColumns =>
              /\ NRows(ret.val) = call.ns
              /\ NCols(ret.val) = TargetDim(call.ns, call.nt)
        /\ ~EnoughColumns =>
              /\ NRows(ret.val) = Min(call.ns, call.data.cols)
              /\ NCols(ret.val) = Min(TargetDim(call.ns, call.nt), call.data.cols)

C5_Witness ==
    /\ IsCall("get_random_rotation")
    /\ ~call.data.none
    /\ call.data.cols = 3
    /\ call.ns = 3
    /\ call.nt = 2
    /\ NRows(ret.val) = 3
    /\ NCols(ret.val) = 2

(* C6 as stated: single_gamma_hrf raises no error for any numeric t, A, W,
   K; W = 0 or A = 0 give an inf/nan value. *)
C6_NeverRaises ==
    IsCall("single_gamma_hrf") => ret.exc = "none"

(* C6 amended: single_gamma_hrf raises ZeroDivisionError when A = 0 or
   W = 0; with A and W nonzero and of ordinary magnitude (A ** 2 and W ** 2
   within the float range) it raises nothing unless t is a Python scalar
   and the exponent (A - t) * A * 8 ln 2 / W exceeds the float range
   (OverflowError; an array t gives nan there). *)
C6_RaisesOnZero ==
    IsCall("single_gamma_hrf") =>
        /\ ret.exc = "ZeroDivisionError" <=> (call.A.v = 0 \/ call.W.v = 0)
        /\ ret.exc = "OverflowError" <=>
              /\ call.A.v # 0
              /\ call.W.v # 0
              /\ ~call.t.arr
              /\ ExpOverflows(call.t, call.A, call.W)
        /\ ret.exc \in {"none", "ZeroDivisionError", "OverflowError"}

C6_Witness ==
    /\ IsCall("single_gamma_hrf")
    /\ call.W.v = 0
    /\ call.A.v # 0
    /\ ret.exc = "ZeroDivisionError"

RECURSIVE Dot(_, _)
Dot(u, v) == IF u = <<>> THEN 0 ELSE u[1] * v[1] + Dot(Tail(u), Tail(v))

IsOrthogonal(R) ==
    \A i, j \in 1..Len(R) : Dot(R[i], R[j]) = (IF i = j THEN 1 ELSE 0)

Candidate == Slice(call.vh, call.ns, TargetDim(call.ns, call.nt))

(* C7: with ns = nt the matrix get_random_rotation returns never has a
   negative determinant: a candidate of determinant < 0 has its first column
   negated (which flips the sign of the determinant and keeps the matrix
   orthogonal), any other candidate is returned unchanged; with ns # nt no
   column is negated. *)
C7_ProperRotation ==
    IsCall("get_random_rotation") =>
        IF call.ns = TargetDim(call.ns, call.nt)
        THEN /\ det(ret.val) >= 0
             /\ IsOrthogonal(ret.val)
             /\ det(Candidate) < 0 =>
                   /\ ret.val = NegateFirstColumn(Candidate)
                   /\ det(ret.val) = -det(Candidate)
             /\ det(Candidate) >= 0 => ret.val = Candidate
        ELSE ret.val = Candidate

C7_Witness ==
    /\ IsCall("get_random_rotation")
    /\ call.ns = 3
    /\ call.nt = 3
    /\ det(Candidate) < 0
    /\ ret.val # Candidate
    /\ det(ret.val) = 1

(* the values of a row that fall into bin j, by the bin borders returned *)
InBin(a, j, nbins, left, last) ==
    /\ a * Unit >= left[j]
    /\ IF j = nbins THEN a * Unit <= last ELSE a * Unit < left[j + 1]

RowCounts(row, nbins, left, last) ==
    [j \in 1..nbins |->
        Cardinality({k \in 1..Len(row) : InBin(row[k], j, nbins, left, last)})]

UsedRange == IF call.x_range.none
             THEN <<SeqMin(ravel(call.X)), SeqMax(ravel(call.X))>>
             ELSE call.x_range.v

LastEdge == IF UsedRange[1] = UsedRange[2]
            THEN UsedRange[2] * Unit + Unit \div 2
            ELSE UsedRange[2] * Unit

(* C8: fit2histogram returns H as a 1D array of length nbins when X has one
   row and as a 2D array (rows, nbins) when X has two or more; row i of H is
   the histogram of row i of X over the same bins for every row (identical
   rows of X give identical rows of H); H is the y given to least_sq_fit. *)
C8_HistogramShape ==
    (IsCall("fit2histogram") /\ ret.exc = "none") =>
        LET r == ret.val
            n == Len(call.X)
            counts(i) == RowCounts(call.X[i], call.nbins, r.bin_left, LastEdge)
        IN  /\ Len(r.bin_left) = call.nbins
            /\ r.fit.y_arg = r.H
            /\ IF n = 1
               THEN /\ r.H.ndim = 1
                    /\ r.H.v = counts(1)
               ELSE /\ r.H.ndim = 2
                    /\ Len(r.H.v) = n
                    /\ \A i \in 1..n : r.H.v[i] = counts(i)
                    /\ \A i, j \in 1..n :
                          call.X[i] = call.X[j] => r.H.v[i] = r.H.v[j]

C8_Witness ==
    /\ IsCall("fit2histogram")
    /\ ret.exc = "none"
    /\ Len(call.X) = 1
    /\ call.nbins = 3
    /\ ret.val.H = Array1(<<1, 0, 1>>)

(* |bin_width - (hi - lo) / nbins| <= 1e-6, in units *)
WidthMatches(range) ==
    Abs(ret.val.bin_width * call.nbins - (range[2] - range[1]) * Unit)
        <= 10 * call.nbins

(* C9 as stated: bin_width equals (x_range[1] - x_range[0]) / nbins within
   1e-6 for every X and nbins >= 1, x_range being the one supplied or
   (min X, max X); also when all values of X are equal. *)
C9_BinWidthAlways ==
    (IsCall("fit2histogram") /\ ret.exc = "none") => WidthMatches(UsedRange)

(* C9 amended: bin_width equals (x_range[1] - x_range[0]) / nbins within
   1e-6 when x_range[0] < x_range[1]; when the two are equal (all values of
   X equal, or such a range supplied) the histogram is taken over
   (x_range[0] - 0.5, x_range[1] + 0.5) and bin_width is 1 / nbins within
   1e-6. *)
C9_BinWidthOfUsedEdges ==
    (IsCall("fit2histogram") /\ ret.exc = "none") =>
        /\ ret.val.bin_width > 0
        /\ UsedRange[1] < UsedRange[2] => WidthMatches(UsedRange)
        /\ UsedRange[1] = UsedRange[2] => WidthMatches(<<0, 1>>)

C9_Witness ==
    /\ IsCall("fit2histogram")
    /\ ret.exc = "none"
    /\ call.x_range.none
    /\ UsedRange = <<0, MaxVal>>
    /\ call.nbins = 3
    /\ ret.val.bin_width * 3 # MaxVal * Unit

(* C10: double_gamma_hrf(t, A1, W1, K1, A2, W2, K2) equals
   single_gamma_hrf(t, A1, W1, K1) - single_gamma_hrf(t, A2, W2, K2), and it
   raises exactly when one of these two calls does. *)
C10_DoubleIsDifference ==
    IsCall("double_gamma_hrf") =>
        LET s1 == single_gamma_hrf(call.t, call.A1, call.W1, call.K1)
            s2 == single_gamma_hrf(call.t, call.A2, call.W2, call.K2)
        IN  /\ ret.exc # "none" <=> (s1.exc # "none" \/ s2.exc # "none")
            /\ ret.exc = "none" => ret.val = FracSub(s1.val, s2.val)

C10_Witness ==
    /\ IsCall("double_gamma_hrf")
    /\ call.A1.kind = "int"
    /\ call.A2.v # call.W2.v
    /\ ret.exc = "none"
    /\ ~ret.val.nan
    /\ ret.val.num # 0

====
